---------------------------- MODULE Spec2Model ----------------------------
(***************************************************************************)
(* Streaming chat transport of the front end: ChatAPI.sendMessageStream    *)
(* (the line-buffering async generator of src/unnamed/part_004).           *)
(*                                                                         *)
(* Text is a sequence of one-character strings, so that chunk boundaries   *)
(* can fall anywhere: inside the `data: ` prefix, inside a JSON payload or *)
(* inside the `[DONE]` token.  A parsed JSON value is represented by its   *)
(* canonical text (insignificant whitespace removed); the value `null` is  *)
(* the text n,u,l,l.                                                       *)
(***************************************************************************)
EXTENDS Integers, Sequences, FiniteSets, TLC

\* ------------------------------------------------------------------------
\* Bounds of the model
\* ------------------------------------------------------------------------

\* largest number of lines in a response body made of arbitrary lines
MaxLines == 2

\* largest number of lines before the `[DONE]` line in a well-formed message
MaxData == 3

\* ------------------------------------------------------------------------
\* String primitives of the JavaScript runtime used by the generator
\* ------------------------------------------------------------------------

NL == "\n"

\* characters String.prototype.trim removes
TrimWs == {" ", "\t", "\r", "\n"}

\* characters JSON.parse skips between tokens
JsonWs == {" ", "\t", "\r", "\n"}

Digit == {"0", "1", "2", "3", "4", "5", "6", "7", "8", "9"}

RECURSIVE split(_, _)
\* s.split(sep): the segments between separators; always at least one
split(s, sep) ==
  IF \E i \in 1..Len(s) : s[i] = sep
  THEN LET i == CHOOSE j \in 1..Len(s) :
                   s[j] = sep /\ \A k \in 1..(j - 1) : s[k] # sep
       IN  <<SubSeq(s, 1, i - 1)>> \o split(SubSeq(s, i + 1, Len(s)), sep)
  ELSE <<s>>

RECURSIVE trimStart(_)
trimStart(s) ==
  IF s # <<>> /\ s[1] \in TrimWs THEN trimStart(Tail(s)) ELSE s

RECURSIVE trimEnd(_)
trimEnd(s) ==
  IF s # <<>> /\ s[Len(s)] \in TrimWs
  THEN trimEnd(SubSeq(s, 1, Len(s) - 1))
  ELSE s

\* s.trim()
trim(s) == trimEnd(trimStart(s))

\* s.startsWith(p)
startsWith(s, p) == Len(s) >= Len(p) /\ SubSeq(s, 1, Len(p)) = p

\* s.slice(n)
slice(s, n) == SubSeq(s, n + 1, Len(s))

\* ------------------------------------------------------------------------
\* JSON.parse, for the grammar: objects, arrays, strings (with the simple
\* escapes), integers, true, false, null.  A scanner returns the index
\* after the construct it recognised, or 0 when the text is not JSON.
\* ------------------------------------------------------------------------

JsonNull == <<"n", "u", "l", "l">>
JsonTrue == <<"t", "r", "u", "e">>
JsonFalse == <<"f", "a", "l", "s", "e">>

RECURSIVE SkipWs(_, _)
SkipWs(s, i) ==
  IF i <= Len(s) /\ s[i] \in JsonWs THEN SkipWs(s, i + 1) ELSE i

MatchLit(s, i, lit) ==
  IF i + Len(lit) - 1 <= Len(s) /\ SubSeq(s, i, i + Len(lit) - 1) = lit
  THEN i + Len(lit)
  ELSE 0

RECURSIVE StringEnd(_, _)
\* i is the index after the opening quote
StringEnd(s, i) ==
  IF i > Len(s) THEN 0
  ELSE IF s[i] = "\"" THEN i + 1
  ELSE IF s[i] = "\\"
       THEN IF i + 1 <= Len(s)
               /\ s[i + 1] \in {"\"", "\\", "/", "b", "f", "n", "r", "t"}
            THEN StringEnd(s, i + 2)
            ELSE 0
  ELSE IF s[i] \in {"\n", "\r", "\t"} THEN 0
  ELSE StringEnd(s, i + 1)

RECURSIVE DigitsEnd(_, _)
DigitsEnd(s, i) ==
  IF i <= Len(s) /\ s[i] \in Digit THEN DigitsEnd(s, i + 1) ELSE i

NumberEnd(s, i) ==
  LET j == IF s[i] = "-" THEN i + 1 ELSE i
  IN  IF j > Len(s) \/ s[j] \notin Digit THEN 0
      ELSE IF s[j] = "0" THEN j + 1
      ELSE DigitsEnd(s, j)

RECURSIVE ValueEnd(_, _)
RECURSIVE MembersEnd(_, _)
RECURSIVE ElementsEnd(_, _)

ValueEnd(s, i0) ==
  LET i == SkipWs(s, i0)
  IN  IF i > Len(s) THEN 0
      ELSE CASE s[i] = "{" ->
                  LET j == SkipWs(s, i + 1)
                  IN  IF j <= Len(s) /\ s[j] = "}" THEN j + 1
                      ELSE MembersEnd(s, j)
             [] s[i] = "[" ->
                  LET j == SkipWs(s, i + 1)
                  IN  IF j <= Len(s) /\ s[j] = "]" THEN j + 1
                      ELSE ElementsEnd(s, j)
             [] s[i] = "\"" -> StringEnd(s, i + 1)
             [] s[i] = "t" -> MatchLit(s, i, JsonTrue)
             [] s[i] = "f" -> MatchLit(s, i, JsonFalse)
             [] s[i] = "n" -> MatchLit(s, i, JsonNull)
             [] s[i] \in Digit \cup {"-"} -> NumberEnd(s, i)
             [] OTHER -> 0

\* i is the index of the first member's key
MembersEnd(s, i) ==
  IF i > Len(s) \/ s[i] # "\"" THEN 0
  ELSE LET k == StringEnd(s, i + 1)
           c == SkipWs(s, k)
       IN  IF k = 0 \/ c > Len(s) \/ s[c] # ":" THEN 0
           ELSE LET v == ValueEnd(s, c + 1)
                    e == SkipWs(s, v)
                IN  IF v = 0 \/ e > Len(s) THEN 0
                    ELSE IF s[e] = "}" THEN e + 1
                    ELSE IF s[e] = "," THEN MembersEnd(s, SkipWs(s, e + 1))
                    ELSE 0

\* i is the index of the first element
ElementsEnd(s, i) ==
  LET v == ValueEnd(s, i)
      e == SkipWs(s, v)
  IN  IF v = 0 \/ e > Len(s) THEN 0
      ELSE IF s[e] = "]" THEN e + 1
      ELSE IF s[e] = "," THEN ElementsEnd(s, e + 1)
      ELSE 0

\* JSON.parse(s) returns instead of throwing a SyntaxError
JsonValid(s) ==
  LET e == ValueEnd(s, 1)
  IN  e # 0 /\ SkipWs(s, e) = Len(s) + 1

RECURSIVE Canon(_, _)
\* the parsed value of a valid text: whitespace outside strings is dropped
Canon(s, inStr) ==
  IF s = <<>> THEN <<>>
  ELSE IF inStr
       THEN IF s[1] = "\\" /\ Len(s) >= 2
            THEN <<s[1], s[2]>> \o Canon(SubSeq(s, 3, Len(s)), TRUE)
            ELSE <<s[1]>> \o Canon(Tail(s), s[1] # "\"")
  ELSE IF s[1] \in JsonWs THEN Canon(Tail(s), FALSE)
  ELSE <<s[1]>> \o Canon(Tail(s), s[1] = "\"")

\* JSON.parse(s): [ok |-> FALSE] models the thrown SyntaxError
JsonParse(s) ==
  IF JsonValid(s)
  THEN [ok |-> TRUE, value |-> Canon(s, FALSE)]
  ELSE [ok |-> FALSE, value |-> JsonNull]

\* ToBoolean of a parsed JSON value: 0, "", false and null are falsy
Truthy(v) ==
  v \notin {JsonNull, JsonFalse, <<"0">>, <<"-", "0">>, <<"\"", "\"">>}

\* ------------------------------------------------------------------------
\* Response bodies offered by the transport
\* ------------------------------------------------------------------------

DataPrefix == <<"d", "a", "t", "a", ":", " ">>
DoneToken == <<"[", "D", "O", "N", "E", "]">>

\* The lines a body is made of.  kind says what the line is on the wire:
\*   Tok    data line whose payload is a JSON object (value: its parsed value)
\*   Zero   data line whose payload is the JSON number 0
\*   Done   data line carrying the termination token
\*   Bad    data line whose payload is not JSON (value: the payload)
\*   Empty  the prefix alone
\*   Junk   non-blank line without the prefix whose content is not JSON
\*   Blank  empty or whitespace-only line
LineIds == {"TokA", "TokB", "Zero", "Done", "Bad", "Empty", "Junk",
            "Blank", "Space"}

LineKind(id) ==
  CASE id \in {"TokA", "TokB"} -> "Tok"
    [] id \in {"Blank", "Space"} -> "Blank"
    [] OTHER -> id

LineValue(id) ==
  CASE id = "TokA" -> <<"{", "\"", "t", "\"", ":", "1", "}">>
    [] id = "TokB" -> <<"{", "\"", "t", "\"", ":", "2", "}">>
    [] id = "Zero" -> <<"0">>
    [] id = "Bad" -> <<"{", "\"", "t">>
    [] OTHER -> <<>>

LineText(id) ==
  CASE id = "TokA" -> DataPrefix \o <<"{", "\"", "t", "\"", ":", "1", "}">>
    [] id = "TokB" -> DataPrefix \o <<"{", "\"", "t", "\"", ":", " ", "2", "}">>
    [] id = "Zero" -> DataPrefix \o <<"0">>
    [] id = "Done" -> DataPrefix \o DoneToken
    [] id = "Bad" -> DataPrefix \o <<"{", "\"", "t">>
    [] id = "Empty" -> DataPrefix
    [] id = "Junk" -> <<"h", "i">>
    [] id = "Blank" -> <<>>
    [] id = "Space" -> <<" ">>

\* bodies made of any lines
AnyScripts == UNION {[1..n -> LineIds] : n \in 1..MaxLines}

\* well-formed messages: data lines and blank separators, then `[DONE]`
MessageScripts ==
  {sc \o <<"Done">> :
     sc \in UNION {[1..n -> {"TokA", "TokB", "Blank"}] : n \in 0..MaxData}}

Scripts == AnyScripts \cup MessageScripts

RECURSIVE Render(_, _)
\* the body text: every line ends with a newline, except that the last one
\* does so only when terminated
Render(sc, term) ==
  IF Len(sc) = 1
  THEN LineText(sc[1]) \o (IF term THEN <<NL>> ELSE <<>>)
  ELSE LineText(sc[1]) \o <<NL>> \o Render(Tail(sc), term)

\* status codes the outbound call may answer with
Statuses == {200, 404, 500}

\* ------------------------------------------------------------------------
\* State
\* ------------------------------------------------------------------------

VARIABLES
  script,      \* the lines of the response body (transport side)
  terminated,  \* whether the last line of the body ends with a newline
  pos,         \* number of characters of the body already delivered
  readFailed,  \* the transport rejected a reader.read()
  status,      \* response.status; 0 before the response arrived
  pc,          \* position of the generator
  reader,      \* "none", "locked" (acquired by getReader) or "released"
  releases,    \* number of reader.releaseLock() calls
  readIssued,  \* reader.read() has been called
  buffer,      \* the local `buffer`
  lines,       \* the lines of the running for loop not yet processed
  atEnd,       \* the running for loop is the one of the `done` branch
  yielded,     \* payloads handed to the consumer, in order
  warns,       \* arguments of the console.warn diagnostics, in order
  dones,       \* number of times processLine met the termination token
  error        \* the error the generator raised

\* the duplex channel: the WebSocket made by createWebSocketChat, its
\* callbacks and its caller
VARIABLES
  readyState,  \* ws.readyState: "CONNECTING", "OPEN", "CLOSING", "CLOSED"
  opened,      \* the handshake succeeded
  failed,      \* the connection failed (the error event was fired)
  sockets,     \* number of WebSockets constructed
  received,    \* ids of the inbound messages delivered so far, in order
  calls,       \* invocations of onMessage/onComplete/onError, in order
  parseLogs,   \* number of console.error calls of the onmessage catch block
  sent,        \* outbound messages handed to ws.send, in order
  sendLog,     \* the sendWebSocketMessage calls made and how each ended
  closeCalls   \* number of ws.close() calls made by the caller

streamVars == <<script, terminated, pos, readFailed, status, pc, reader,
                releases, readIssued, buffer, lines, atEnd, yielded, warns,
                dones, error>>

wsVars == <<readyState, opened, failed, sockets, received, calls, parseLogs,
            sent, sendLog, closeCalls>>

\* the outbound call of sendMessageStream
VARIABLES
  options,     \* the arguments of the invocation: messages and options
  outbound     \* bodies of the fetch calls made, in order

\* sendMessageStream invocations running side by side
VARIABLES
  streams,     \* per invocation: its body and the state of its generator
  buffers      \* the `buffer` variables, one per invocation

reqVars == <<options, outbound>>

parVars == <<streams, buffers>>

vars == <<streamVars, wsVars, reqVars, parVars>>

\* the channel right after createWebSocketChat returned
WsInit ==
  /\ readyState = "CONNECTING"
  /\ opened = FALSE
  /\ failed = FALSE
  /\ sockets = 1
  /\ received = <<>>
  /\ calls = <<>>
  /\ parseLogs = 0
  /\ sent = <<>>
  /\ sendLog = <<>>
  /\ closeCalls = 0

body == Render(script, terminated)

NoError == [kind |-> "none", status |-> 0]

\* ------------------------------------------------------------------------
\* The request body. temperature and top_p are counted in tenths.
\* ------------------------------------------------------------------------

\* the `messages` arguments the caller sends
Requests == {<<[role |-> "user", content |-> "hi"]>>}

\* an option the caller left out, and one it supplied
Absent == [given |-> FALSE, v |-> 0]
Given(n) == [given |-> TRUE, v |-> n]

\* `options.maxTokens || 1000`
DefaultMaxTokens == 1000

\* `options.temperature || 0.7`, in tenths
DefaultTemperature == 7

\* `options.topP || 0.9`, in tenths
DefaultTopP == 9

\* the options a caller may pass: within the declared ranges, bounds included
MaxTokensArgs == {Absent} \cup {Given(n) : n \in {1, 256, 1000}}
TemperatureArgs == {Absent} \cup {Given(n) : n \in {0, 7, 10, 20}}
TopPArgs == {Absent} \cup {Given(n) : n \in {0, 5, 9, 10}}

\* `opt || dflt`: undefined and 0 are falsy
OrElse(opt, dflt) == IF opt.given /\ opt.v # 0 THEN opt.v ELSE dflt

\* the object handed to JSON.stringify
RequestBody(o) ==
  [messages |-> o.messages,
   max_tokens |-> OrElse(o.maxTokens, DefaultMaxTokens),
   temperature |-> OrElse(o.temperature, DefaultTemperature),
   top_p |-> OrElse(o.topP, DefaultTopP)]

\* sendMessageStream(messages) with no options
NoOptions ==
  [messages |-> <<[role |-> "user", content |-> "hi"]>>,
   maxTokens |-> Absent, temperature |-> Absent, topP |-> Absent]

ReqIdle ==
  /\ options = NoOptions
  /\ outbound = <<>>

\* no further invocation is running
ParIdle ==
  /\ streams = <<>>
  /\ buffers = <<>>

\* ------------------------------------------------------------------------
\* processLine and the for loops around it
\* ------------------------------------------------------------------------

\* processLine with a catch block that drops the diagnostic
processLineSilent(line) ==
  LET trimmedLine == trim(line)
      data == slice(trimmedLine, 6)
      parsed == JsonParse(data)
      silent == [ret |-> JsonNull, warned |-> FALSE, data |-> <<>>,
                 done |-> FALSE]
  IN  IF trimmedLine = <<>> THEN silent
      ELSE IF startsWith(trimmedLine, DataPrefix)
           THEN IF data = DoneToken THEN [silent EXCEPT !.done = TRUE]
                ELSE IF parsed.ok
                     THEN [silent EXCEPT !.ret = parsed.value]
                     ELSE silent
      ELSE silent

\* processLine without the blank-line test, taking a line without the prefix
\* for a payload
processLineStrict(line) ==
  LET trimmedLine == trim(line)
      prefixed == startsWith(trimmedLine, DataPrefix)
      data == IF prefixed THEN slice(trimmedLine, 6) ELSE trimmedLine
      parsed == JsonParse(data)
      silent == [ret |-> JsonNull, warned |-> FALSE, data |-> <<>>,
                 done |-> FALSE]
  IN  IF prefixed /\ data = DoneToken THEN [silent EXCEPT !.done = TRUE]
      ELSE IF parsed.ok THEN [silent EXCEPT !.ret = parsed.value]
      ELSE [silent EXCEPT !.warned = TRUE, !.data = data]

\* processLine(line): ret is the returned value (null is the JSON null),
\* warned/data the console.warn call, done the `[DONE]` branch
processLine(line) ==
  LET trimmedLine == trim(line)
      data == slice(trimmedLine, 6)
      parsed == JsonParse(data)
      silent == [ret |-> JsonNull, warned |-> FALSE, data |-> <<>>,
                 done |-> FALSE]
  IN  IF trimmedLine = <<>> THEN silent
      ELSE IF startsWith(trimmedLine, DataPrefix)
           THEN IF data = DoneToken THEN [silent EXCEPT !.done = TRUE]
                ELSE IF parsed.ok
                     THEN [silent EXCEPT !.ret = parsed.value]
                     ELSE [silent EXCEPT !.warned = TRUE, !.data = data]
      ELSE silent

RECURSIVE runLines(_, _, _, _)
\* `for (const line of lines) { parsed = processLine(line);
\*                              if (parsed) yield parsed }`
\* run up to the next yield (suspended) or to the end of the loop
runLines(ls, y, w, d) ==
  IF ls = <<>>
  THEN [lines |-> <<>>, yielded |-> y, warns |-> w, dones |-> d,
        suspended |-> FALSE]
  ELSE LET r == processLine(Head(ls))
           w2 == IF r.warned THEN Append(w, r.data) ELSE w
           d2 == IF r.done THEN d + 1 ELSE d
       IN  IF Truthy(r.ret)
           THEN [lines |-> Tail(ls), yielded |-> Append(y, r.ret),
                 warns |-> w2, dones |-> d2, suspended |-> TRUE]
           ELSE runLines(Tail(ls), y, w2, d2)

\* a status check that lets every response through
ResponseOkAlways(st) == TRUE

\* response.ok
ResponseOk(st) == st \in 200..299

\* a buffer that forgets the unfinished line
RetainedBufferDropped(ls) == <<>>

\* a buffer that keeps the last complete line in front of the unfinished one
RetainedBufferKeepsLine(ls) ==
  IF Len(ls) > 1
  THEN ls[Len(ls) - 1] \o <<NL>> \o ls[Len(ls)]
  ELSE ls[Len(ls)]

\* `buffer = lines.pop() || ''`: the last segment stays in the buffer
RetainedBuffer(ls) == ls[Len(ls)]

\* a loop that also processes the unfinished last segment
CompleteLinesAll(ls) == ls

\* what is left in `lines` after lines.pop()
CompleteLines(ls) == SubSeq(ls, 1, Len(ls) - 1)

\* a `done` branch that breaks without looking at the buffer
ResidualLinesSkipped(buf) == <<>>

\* the lines the `done` branch processes
ResidualLines(buf) == IF trim(buf) # <<>> THEN split(buf, NL) ELSE <<>>

\* ------------------------------------------------------------------------
\* The generator
\* ------------------------------------------------------------------------

Init ==
  /\ script \in Scripts
  /\ terminated \in BOOLEAN
  /\ pos = 0
  /\ readFailed = FALSE
  /\ status = 0
  /\ pc = "start"
  /\ reader = "none"
  /\ releases = 0
  /\ readIssued = FALSE
  /\ buffer = <<>>
  /\ lines = <<>>
  /\ atEnd = FALSE
  /\ yielded = <<>>
  /\ warns = <<>>
  /\ dones = 0
  /\ error = NoError
  /\ WsInit
  /\ ReqIdle
  /\ ParIdle

\* the state after a for loop ran up to r: suspended at a yield, or past
\* the loop: `break` and the finally block in the done branch, the next
\* reader.read() otherwise
AfterLoop(r, end) ==
  /\ lines' = r.lines
  /\ yielded' = r.yielded
  /\ warns' = r.warns
  /\ dones' = r.dones
  /\ atEnd' = end
  /\ IF r.suspended
     THEN pc' = "yield" /\ UNCHANGED <<reader, releases>>
     ELSE IF end
          THEN pc' = "done" /\ reader' = "released" /\ releases' = releases + 1
          ELSE pc' = "awaitRead" /\ UNCHANGED <<reader, releases>>

\* a first next() that ends quietly when the response has no body
FetchEndsQuietly ==
  /\ pc = "start"
  /\ outbound' = Append(outbound, RequestBody(options))
  /\ \E st \in Statuses, hasBody \in BOOLEAN :
       /\ status' = st
       /\ IF ~ResponseOk(st)
          THEN /\ hasBody
               /\ pc' = "thrown"
               /\ error' = [kind |-> "http", status |-> st]
               /\ UNCHANGED <<reader, readIssued>>
          ELSE IF ~hasBody
               THEN /\ pc' = "done"
                    /\ UNCHANGED <<reader, readIssued, error>>
               ELSE /\ pc' = "awaitRead"
                    /\ reader' = "locked"
                    /\ readIssued' = TRUE
                    /\ UNCHANGED error
  /\ UNCHANGED <<script, terminated, pos, readFailed, releases, buffer, lines,
                 atEnd, yielded, warns, dones>>
  /\ UNCHANGED <<wsVars, options, parVars>>

\* the first next(): the outbound call answers with a status
Fetch ==
  /\ pc = "start"
  /\ outbound' = Append(outbound, RequestBody(options))
  /\ \E st \in Statuses, hasBody \in BOOLEAN :
       /\ status' = st
       /\ IF ~ResponseOk(st)
          THEN /\ hasBody
               /\ pc' = "thrown"
               /\ error' = [kind |-> "http", status |-> st]
               /\ UNCHANGED <<reader, readIssued>>
          ELSE IF ~hasBody
               THEN /\ pc' = "thrown"
                    /\ error' = [kind |-> "unreadable", status |-> 0]
                    /\ UNCHANGED <<reader, readIssued>>
               ELSE /\ pc' = "awaitRead"
                    /\ reader' = "locked"
                    /\ readIssued' = TRUE
                    /\ UNCHANGED error
  /\ UNCHANGED <<script, terminated, pos, readFailed, releases, buffer, lines,
                 atEnd, yielded, warns, dones>>
  /\ UNCHANGED <<wsVars, options, parVars>>

\* the first next(): the outbound call itself is rejected
FetchReject ==
  /\ pc = "start"
  /\ outbound' = Append(outbound, RequestBody(options))
  /\ pc' = "thrown"
  /\ error' = [kind |-> "network", status |-> 0]
  /\ UNCHANGED <<script, terminated, pos, readFailed, status, reader, releases,
                 readIssued, buffer, lines, atEnd, yielded, warns, dones>>
  /\ UNCHANGED <<wsVars, options, parVars>>

\* reader.read() resolves with the next chunk, of any length
ReadChunk ==
  /\ pc = "awaitRead"
  /\ pos < Len(body)
  /\ \E k \in 1..(Len(body) - pos) :
       LET value == SubSeq(body, pos + 1, pos + k)
           ls == split(buffer \o value, NL)
       IN  /\ pos' = pos + k
           /\ buffer' = RetainedBuffer(ls)
           /\ AfterLoop(runLines(CompleteLines(ls), yielded, warns, dones),
                        FALSE)
  /\ UNCHANGED <<script, terminated, readFailed, status, readIssued, error>>
  /\ UNCHANGED <<wsVars, reqVars, parVars>>

\* reader.read() resolves with done at the end of the body
ReadDone ==
  /\ pc = "awaitRead"
  /\ pos = Len(body)
  /\ AfterLoop(runLines(ResidualLines(buffer), yielded, warns, dones), TRUE)
  /\ UNCHANGED <<script, terminated, pos, readFailed, status, readIssued,
                 buffer, error>>
  /\ UNCHANGED <<wsVars, reqVars, parVars>>

\* a rejected read that is taken for the end of the body
ReadErrorSwallowed ==
  /\ pc = "awaitRead"
  /\ readFailed' = TRUE
  /\ pc' = "done"
  /\ reader' = "released"
  /\ releases' = releases + 1
  /\ UNCHANGED <<script, terminated, pos, status, readIssued, buffer, lines,
                 atEnd, yielded, warns, dones, error>>
  /\ UNCHANGED <<wsVars, reqVars, parVars>>

\* reader.read() rejects: the error leaves through the finally block
ReadError ==
  /\ pc = "awaitRead"
  /\ readFailed' = TRUE
  /\ pc' = "thrown"
  /\ error' = [kind |-> "transport", status |-> 0]
  /\ reader' = "released"
  /\ releases' = releases + 1
  /\ UNCHANGED <<script, terminated, pos, status, readIssued, buffer, lines,
                 atEnd, yielded, warns, dones>>
  /\ UNCHANGED <<wsVars, reqVars, parVars>>

\* a resumption that goes for the next chunk with lines still to process
ResumeSkipsToRead ==
  /\ pc = "yield"
  /\ pc' = "awaitRead"
  /\ UNCHANGED <<script, terminated, pos, readFailed, status, reader, releases,
                 readIssued, buffer, lines, atEnd, yielded, warns, dones,
                 error>>
  /\ UNCHANGED <<wsVars, reqVars, parVars>>

\* the consumer asks for the next payload while the generator is at a yield
Resume ==
  /\ pc = "yield"
  /\ AfterLoop(runLines(lines, yielded, warns, dones), atEnd)
  /\ UNCHANGED <<script, terminated, pos, readFailed, status, readIssued,
                 buffer, error>>
  /\ UNCHANGED <<wsVars, reqVars, parVars>>

\* an abandonment that runs no finally block
ReturnNoFinally ==
  /\ pc = "yield"
  /\ pc' = "returned"
  /\ UNCHANGED <<script, terminated, pos, readFailed, status, reader, releases,
                 readIssued, buffer, lines, atEnd, yielded, warns, dones,
                 error>>
  /\ UNCHANGED <<wsVars, reqVars, parVars>>

\* the consumer abandons the iteration (return()) at a yield: the finally
\* block runs
Return ==
  /\ pc = "yield"
  /\ pc' = "returned"
  /\ reader' = "released"
  /\ releases' = releases + 1
  /\ UNCHANGED <<script, terminated, pos, readFailed, status, readIssued,
                 buffer, lines, atEnd, yielded, warns, dones, error>>
  /\ UNCHANGED <<wsVars, reqVars, parVars>>

\* the consumer abandons the generator before its first next()
ReturnAtStart ==
  /\ pc = "start"
  /\ pc' = "returned"
  /\ UNCHANGED <<script, terminated, pos, readFailed, status, reader, releases,
                 readIssued, buffer, lines, atEnd, yielded, warns, dones,
                 error>>
  /\ UNCHANGED <<wsVars, reqVars, parVars>>

Next ==
  \/ Fetch
  \/ FetchReject
  \/ ReadChunk
  \/ ReadDone
  \/ ReadError
  \/ Resume
  \/ Return
  \/ ReturnAtStart

Spec == Init /\ [][Next]_vars

TypeOK ==
  /\ pc \in {"start", "awaitRead", "yield", "done", "thrown", "returned"}
  /\ reader \in {"none", "locked", "released"}
  /\ pos \in 0..Len(body)

\* ------------------------------------------------------------------------
\* What a body is expected to produce, read off the kinds of its lines
\* ------------------------------------------------------------------------

Terminal == {"done", "thrown", "returned"}

\* the positions of the lines of a kind
LinesOfKind(sc, kind) == {i \in 1..Len(sc) : LineKind(sc[i]) = kind}

\* the payloads of the data lines of sc that carry a JSON object, in order
TokValues(sc) ==
  LET toks == SelectSeq(sc, LAMBDA id : LineKind(id) = "Tok")
  IN  [i \in 1..Len(toks) |-> LineValue(toks[i])]

\* number of lines of the body whose newline has been delivered
DeliveredLines == Cardinality({i \in 1..pos : body[i] = NL})

\* the lines completed by what has been delivered
DeliveredScript == SubSeq(script, 1, DeliveredLines)

\* sc is a well-formed message: data lines and blank lines, then `[DONE]`
IsMessage(sc) ==
  /\ sc[Len(sc)] = "Done"
  /\ \A i \in 1..(Len(sc) - 1) : LineKind(sc[i]) \in {"Tok", "Blank"}

\* number of diagnostics whose argument is d
WarnsOf(d) == Cardinality({i \in 1..Len(warns) : warns[i] = d})

\* ------------------------------------------------------------------------
\* Claims
\* ------------------------------------------------------------------------

\* C1: for a body of N data lines followed by a `data: [DONE]` line, every
\* partition into chunks ends with the same yielded sequence: the parsed
\* payloads of the N data lines in line order, and no parse diagnostic.
\* (The data lines carry JSON objects, as the wire format prescribes.)
C1_SplitIndependent ==
  (IsMessage(script) /\ terminated /\ pc = "done")
    => (yielded = TokValues(script) /\ warns = <<>> /\ error = NoError)

C1_Witness ==
  /\ script = <<"TokA", "TokB", "Done">>
  /\ terminated
  /\ pc = "done"
  /\ yielded = <<LineValue("TokA"), LineValue("TokB")>>

\* C2: once a complete `[DONE]` line has been processed nothing derived from
\* a later line is yielded: the payloads yielded never exceed those of the
\* data lines before the first `[DONE]` line.
C2_DoneExhausts ==
  \A i \in LinesOfKind(script, "Done") :
    Len(yielded) <= Len(TokValues(SubSeq(script, 1, i - 1)))

\* C3: an acquired reader is released exactly once on every exit path (end
\* of body, abandonment at a yield, rejected read), never before the exit
\* and never twice.
C3_ReleasedExactlyOnce ==
  /\ releases <= 1
  /\ (reader = "none") => (releases = 0)
  /\ (reader # "none" /\ pc \in Terminal) => (releases = 1)
  /\ (pc \notin Terminal) => (releases = 0)

C3_Witness ==
  /\ pc = "returned"
  /\ yielded # <<>>
  /\ lines # <<>>
  /\ releases = 1

\* C4: a non-success status makes the stream fail at once with an error
\* carrying that status: nothing yielded, no reader acquired, no chunk read.
C4_RequestFailed ==
  (status # 0 /\ status \notin 200..299)
    => /\ pc = "thrown"
       /\ error = [kind |-> "http", status |-> status]
       /\ yielded = <<>>
       /\ reader = "none"
       /\ ~readIssued
       /\ pos = 0

C4_Witness ==
  /\ status = 404
  /\ pc = "thrown"
  /\ error.status = 404

\* C5: a rejected chunk read ends the stream with an error, never with a
\* normal end, and the payloads yielded so far are exactly those of the
\* lines delivered before the failure.
C5_TransportError ==
  readFailed
    => /\ pc = "thrown"
       /\ error.kind = "transport"
       /\ yielded = TokValues(DeliveredScript)

C5_Witness ==
  /\ readFailed
  /\ yielded # <<>>
  /\ pos < Len(body)

\* C6: every data line with a malformed payload gives exactly one parse
\* diagnostic and no payload, and the data lines around it, the later ones
\* included, still yield theirs.
C6_ParseErrorContinues ==
  (pc = "done")
    => /\ WarnsOf(LineValue("Bad")) = Cardinality(LinesOfKind(script, "Bad"))
       /\ yielded = TokValues(script)

C6_Witness ==
  /\ script = <<"Bad", "TokA">>
  /\ pc = "done"
  /\ warns = <<LineValue("Bad")>>
  /\ yielded = <<LineValue("TokA")>>

\* C7: a body that ends without `[DONE]` on an unterminated data line yields
\* that line's payload exactly once and then ends normally.
C7_ResidualFlushedOnce ==
  (/\ pc = "done"
   /\ ~terminated
   /\ LineKind(script[Len(script)]) = "Tok"
   /\ LinesOfKind(script, "Done") = {})
    => /\ yielded = TokValues(script)
       /\ error = NoError

C7_Witness ==
  /\ script = <<"TokA">>
  /\ ~terminated
  /\ pc = "done"
  /\ yielded = <<LineValue("TokA")>>

\* C8: an unfinished line in the buffer, such as `data: [DO`, produces
\* nothing: while the generator waits for a chunk the termination token has
\* been recognised once per `[DONE]` line whose newline has arrived, and
\* never for a fragment, with no payload and no diagnostic made of one.
C8_WaitsForFullLine ==
  (IsMessage(script) /\ pc = "awaitRead")
    => /\ dones = Cardinality(LinesOfKind(DeliveredScript, "Done"))
       /\ yielded = TokValues(DeliveredScript)
       /\ warns = <<>>

C8_Witness ==
  /\ script = <<"Done">>
  /\ pc = "awaitRead"
  /\ buffer = DataPrefix \o <<"[", "D", "O">>
  /\ dones = 0
  /\ yielded = <<>>
  /\ warns = <<>>

\* C9: a complete line that is the `data: ` prefix with an empty payload
\* gives a parse diagnostic (for the empty payload).
C9_EmptyPayloadReported ==
  (pc = "done" /\ LinesOfKind(script, "Empty") # {})
    => \E i \in 1..Len(warns) : warns[i] = <<>>

\* C10: a complete non-blank line without the prefix whose content is not
\* JSON gives a parse diagnostic (for that content).
C10_JunkReported ==
  (pc = "done" /\ LinesOfKind(script, "Junk") # {})
    => \E i \in 1..Len(warns) : warns[i] = LineText("Junk")

\* ------------------------------------------------------------------------
\* The duplex channel: createWebSocketChat and sendWebSocketMessage
\* ------------------------------------------------------------------------

\* largest number of inbound messages on one connection
MaxInbound == 3

\* largest number of sendWebSocketMessage calls on one connection
MaxSends == 2

\* largest number of ws.close() calls on one connection
MaxCloses == 2

\* the JavaScript value undefined
Undefined == <<"undefined">>

\* the text onerror hands to onError
ConnectionErrorText == <<"WebSocket connection error">>

TypeKey == <<"t", "y", "p", "e">>
TokenKey == <<"t", "o", "k", "e", "n">>
CompleteWord == <<"c", "o", "m", "p", "l", "e", "t", "e">>
ErrorKey == <<"e", "r", "r", "o", "r">>

\* the JSON text of a string without escapes
Quoted(w) == <<"\"">> \o w \o <<"\"">>

RECURSIVE MemberOf(_, _, _)
\* the member named key of the object text c, looked for from the member
\* whose key starts at index i
MemberOf(c, i, key) ==
  LET k == StringEnd(c, i + 1)
      v == ValueEnd(c, k + 1)
  IN  IF SubSeq(c, i + 1, k - 2) = key THEN SubSeq(c, k + 1, v - 1)
      ELSE IF c[v] = "," THEN MemberOf(c, v + 1, key)
      ELSE Undefined

\* data[key] of a parsed value other than null: only objects have members
Property(c, key) ==
  IF c[1] = "{" /\ Len(c) > 2 THEN MemberOf(c, 2, key) ELSE Undefined

\* the inbound messages the server may send
MsgIds == {"tokA", "tokB", "complete", "errX", "ping", "noType", "garbage"}

\* what a message is on the wire: a token, complete or error message, or
\* one that cannot be dispatched ("unknown": a type outside the protocol or
\* none; "unparseable": event.data is no JSON object text)
MsgKind(id) ==
  CASE id \in {"tokA", "tokB"} -> "token"
    [] id = "complete" -> "complete"
    [] id = "errX" -> "error"
    [] id \in {"ping", "noType"} -> "unknown"
    [] OTHER -> "unparseable"

\* the text a token or error message carries
MsgArg(id) ==
  CASE id = "tokA" -> Quoted(<<"a">>)
    [] id = "tokB" -> Quoted(<<"b">>)
    [] id = "errX" -> Quoted(<<"x">>)
    [] OTHER -> Undefined

\* event.data
MsgText(id) ==
  CASE id = "tokA" ->
       <<"{", "\"", "t", "y", "p", "e", "\"", ":", "\"", "t", "o", "k",
         "e", "n", "\"", ",", "\"", "t", "o", "k", "e", "n",
         "\"", ":", "\"", "a", "\"", "}">>
    [] id = "tokB" ->
       <<"{", "\"", "t", "y", "p", "e", "\"", ":", " ", "\"", "t", "o",
         "k", "e", "n", "\"", ",", " ", "\"", "t", "o", "k", "e",
         "n", "\"", ":", " ", "\"", "b", "\"", "}">>
    [] id = "complete" ->
       <<"{", "\"", "t", "y", "p", "e", "\"", ":", "\"", "c", "o", "m",
         "p", "l", "e", "t", "e", "\"", "}">>
    [] id = "errX" ->
       <<"{", "\"", "t", "y", "p", "e", "\"", ":", "\"", "e", "r", "r",
         "o", "r", "\"", ",", "\"", "e", "r", "r", "o", "r",
         "\"", ":", "\"", "x", "\"", "}">>
    [] id = "ping" ->
       <<"{", "\"", "t", "y", "p", "e", "\"", ":", "\"", "p", "i", "n",
         "g", "\"", "}">>
    [] id = "noType" ->
       <<"{", "\"", "t", "o", "k", "e", "n", "\"", ":", "\"", "a", "\"",
         "}">>
    [] id = "garbage" ->
       <<"o", "o", "p", "s">>

\* ws.onmessage with the token branch handing over data.type
dispatchTypeAsToken(text) ==
  LET parsed == JsonParse(text)
      data == parsed.value
      type == Property(data, TypeKey)
  IN  IF ~parsed.ok \/ data = JsonNull
      THEN [calls |-> <<>>, logged |-> TRUE]
      ELSE IF type = Quoted(TokenKey)
      THEN [calls |-> <<[cb |-> "onMessage", arg |-> type]>>,
            logged |-> FALSE]
      ELSE IF type = Quoted(CompleteWord)
      THEN [calls |-> <<[cb |-> "onComplete", arg |-> Undefined]>>,
            logged |-> FALSE]
      ELSE IF type = Quoted(ErrorKey)
      THEN [calls |-> <<[cb |-> "onError", arg |-> Property(data, ErrorKey)]>>,
            logged |-> FALSE]
      ELSE [calls |-> <<>>, logged |-> FALSE]

\* ws.onmessage with onComplete in a final else branch
dispatchCompleteByDefault(text) ==
  LET parsed == JsonParse(text)
      data == parsed.value
      type == Property(data, TypeKey)
  IN  IF ~parsed.ok \/ data = JsonNull
      THEN [calls |-> <<>>, logged |-> TRUE]
      ELSE IF type = Quoted(TokenKey)
      THEN [calls |-> <<[cb |-> "onMessage", arg |-> Property(data, TokenKey)]>>,
            logged |-> FALSE]
      ELSE IF type = Quoted(ErrorKey)
      THEN [calls |-> <<[cb |-> "onError", arg |-> Property(data, ErrorKey)]>>,
            logged |-> FALSE]
      ELSE [calls |-> <<[cb |-> "onComplete", arg |-> Undefined]>>,
            logged |-> FALSE]

\* ws.onmessage with a catch block that reports to onError
dispatchCatchReports(text) ==
  LET parsed == JsonParse(text)
      data == parsed.value
      type == Property(data, TypeKey)
  IN  IF ~parsed.ok \/ data = JsonNull
      THEN [calls |-> <<[cb |-> "onError", arg |-> Undefined]>>,
            logged |-> TRUE]
      ELSE IF type = Quoted(TokenKey)
      THEN [calls |-> <<[cb |-> "onMessage", arg |-> Property(data, TokenKey)]>>,
            logged |-> FALSE]
      ELSE IF type = Quoted(CompleteWord)
      THEN [calls |-> <<[cb |-> "onComplete", arg |-> Undefined]>>,
            logged |-> FALSE]
      ELSE IF type = Quoted(ErrorKey)
      THEN [calls |-> <<[cb |-> "onError", arg |-> Property(data, ErrorKey)]>>,
            logged |-> FALSE]
      ELSE [calls |-> <<>>, logged |-> FALSE]

\* ws.onmessage: the callbacks invoked for event.data = text, and whether
\* the catch block logged (JSON.parse threw, or data.type of null did)
dispatch(text) ==
  LET parsed == JsonParse(text)
      data == parsed.value
      type == Property(data, TypeKey)
  IN  IF ~parsed.ok \/ data = JsonNull
      THEN [calls |-> <<>>, logged |-> TRUE]
      ELSE IF type = Quoted(TokenKey)
      THEN [calls |-> <<[cb |-> "onMessage", arg |-> Property(data, TokenKey)]>>,
            logged |-> FALSE]
      ELSE IF type = Quoted(CompleteWord)
      THEN [calls |-> <<[cb |-> "onComplete", arg |-> Undefined]>>,
            logged |-> FALSE]
      ELSE IF type = Quoted(ErrorKey)
      THEN [calls |-> <<[cb |-> "onError", arg |-> Property(data, ErrorKey)]>>,
            logged |-> FALSE]
      ELSE [calls |-> <<>>, logged |-> FALSE]

\* a send test that lets every state through
IsOpenAlways(rs) == TRUE

\* ws.readyState === WebSocket.OPEN
IsOpen(rs) == rs = "OPEN"

\* the stream generator is not used while the channel is looked at
StreamIdle ==
  /\ script = <<"Done">>
  /\ terminated = TRUE
  /\ pos = 0
  /\ readFailed = FALSE
  /\ status = 0
  /\ pc = "start"
  /\ reader = "none"
  /\ releases = 0
  /\ readIssued = FALSE
  /\ buffer = <<>>
  /\ lines = <<>>
  /\ atEnd = FALSE
  /\ yielded = <<>>
  /\ warns = <<>>
  /\ dones = 0
  /\ error = NoError

InitWs == StreamIdle /\ WsInit /\ ReqIdle /\ ParIdle

\* the handshake succeeds: ws.onopen logs
WsOpen ==
  /\ readyState = "CONNECTING"
  /\ readyState' = "OPEN"
  /\ opened' = TRUE
  /\ UNCHANGED <<failed, sockets, received, calls, parseLogs, sent, sendLog,
                 closeCalls>>
  /\ UNCHANGED <<streamVars, reqVars, parVars>>

\* ws.onmessage with an error message closing the connection
WsMessageErrorCloses ==
  /\ opened
  /\ readyState \in {"OPEN", "CLOSING"}
  /\ Len(received) < MaxInbound
  /\ \E id \in MsgIds :
       LET r == dispatch(MsgText(id))
       IN  /\ received' = Append(received, id)
           /\ calls' = calls \o r.calls
           /\ parseLogs' = parseLogs + (IF r.logged THEN 1 ELSE 0)
           /\ readyState' = IF \E i \in 1..Len(r.calls) : r.calls[i].cb = "onError"
                            THEN "CLOSING"
                            ELSE readyState
  /\ UNCHANGED <<opened, failed, sockets, sent, sendLog, closeCalls>>
  /\ UNCHANGED <<streamVars, reqVars, parVars>>

\* a message arrives: ws.onmessage
WsMessage ==
  /\ opened
  /\ readyState \in {"OPEN", "CLOSING"}
  /\ Len(received) < MaxInbound
  /\ \E id \in MsgIds :
       LET r == dispatch(MsgText(id))
       IN  /\ received' = Append(received, id)
           /\ calls' = calls \o r.calls
           /\ parseLogs' = parseLogs + (IF r.logged THEN 1 ELSE 0)
  /\ UNCHANGED <<readyState, opened, failed, sockets, sent, sendLog,
                 closeCalls>>
  /\ UNCHANGED <<streamVars, reqVars, parVars>>

\* a failure that ws.onerror does not pass on
WsFailSilent ==
  /\ readyState # "CLOSED"
  /\ readyState' = "CLOSED"
  /\ failed' = TRUE
  /\ UNCHANGED <<opened, sockets, received, calls, parseLogs, sent, sendLog,
                 closeCalls>>
  /\ UNCHANGED <<streamVars, reqVars, parVars>>

\* the connection fails (also: it is closed before it was established):
\* the socket is CLOSED, then ws.onerror and ws.onclose run
WsFail ==
  /\ readyState # "CLOSED"
  /\ readyState' = "CLOSED"
  /\ failed' = TRUE
  /\ calls' = Append(calls, [cb |-> "onError", arg |-> ConnectionErrorText])
  /\ UNCHANGED <<opened, sockets, received, parseLogs, sent, sendLog,
                 closeCalls>>
  /\ UNCHANGED <<streamVars, reqVars, parVars>>

\* an onclose handler that opens a replacement connection
WsClosedReconnects ==
  /\ opened
  /\ readyState \in {"OPEN", "CLOSING"}
  /\ sockets < 3
  /\ readyState' = "CONNECTING"
  /\ opened' = FALSE
  /\ sockets' = sockets + 1
  /\ UNCHANGED <<failed, received, calls, parseLogs, sent, sendLog,
                 closeCalls>>
  /\ UNCHANGED <<streamVars, reqVars, parVars>>

\* the established connection is closed cleanly, by the server or after
\* ws.close(): the socket is CLOSED, then ws.onclose logs
WsClosed ==
  /\ opened
  /\ readyState \in {"OPEN", "CLOSING"}
  /\ readyState' = "CLOSED"
  /\ UNCHANGED <<opened, failed, sockets, received, calls, parseLogs, sent,
                 sendLog, closeCalls>>
  /\ UNCHANGED <<streamVars, reqVars, parVars>>

\* sendWebSocketMessage(ws, messages): ok is FALSE when it threw
sendWebSocketMessage ==
  /\ Len(sendLog) < MaxSends
  /\ \E messages \in Requests :
       /\ sendLog' = Append(sendLog, [req |-> messages, rs |-> readyState,
                                      failed |-> failed,
                                      ok |-> IsOpen(readyState)])
       /\ sent' = IF IsOpen(readyState)
                  THEN Append(sent, [type |-> "chat", messages |-> messages])
                  ELSE sent
  /\ UNCHANGED <<readyState, opened, failed, sockets, received, calls,
                 parseLogs, closeCalls>>
  /\ UNCHANGED <<streamVars, reqVars, parVars>>

\* a close that reports when the handle is already closing or closed
WsCloseReports ==
  /\ closeCalls < MaxCloses
  /\ closeCalls' = closeCalls + 1
  /\ readyState' = IF readyState \in {"CLOSING", "CLOSED"}
                   THEN readyState
                   ELSE "CLOSING"
  /\ calls' = IF readyState \in {"CLOSING", "CLOSED"}
              THEN Append(calls, [cb |-> "onError", arg |-> Undefined])
              ELSE calls
  /\ UNCHANGED <<opened, failed, sockets, received, parseLogs, sent, sendLog>>
  /\ UNCHANGED <<streamVars, reqVars, parVars>>

\* the caller closes the handle it got from createWebSocketChat: ws.close()
\* starts the closing handshake, or does nothing when the socket is already
\* closing or closed
WsClose ==
  /\ closeCalls < MaxCloses
  /\ closeCalls' = closeCalls + 1
  /\ readyState' = IF readyState \in {"CLOSING", "CLOSED"}
                   THEN readyState
                   ELSE "CLOSING"
  /\ UNCHANGED <<opened, failed, sockets, received, calls, parseLogs, sent,
                 sendLog>>
  /\ UNCHANGED <<streamVars, reqVars, parVars>>

\* a timer of the client's own: it reports and closes a connection that is
\* still connecting or open
WsTimeout ==
  /\ readyState \in {"CONNECTING", "OPEN"}
  /\ readyState' = "CLOSING"
  /\ calls' = Append(calls, [cb |-> "onError", arg |-> Undefined])
  /\ UNCHANGED <<opened, failed, sockets, received, parseLogs, sent, sendLog,
                 closeCalls>>
  /\ UNCHANGED <<streamVars, reqVars, parVars>>

\* the channel with such a timer
NextWsWithTimeout ==
  \/ WsOpen
  \/ WsMessage
  \/ WsFail
  \/ WsClosed
  \/ sendWebSocketMessage
  \/ WsClose
  \/ WsTimeout

NextWs ==
  \/ WsOpen
  \/ WsMessage
  \/ WsFail
  \/ WsClosed
  \/ sendWebSocketMessage
  \/ WsClose

SpecWs == InitWs /\ [][NextWs]_vars

\* ------------------------------------------------------------------------
\* What the channel is expected to do, read off the kinds of the messages
\* ------------------------------------------------------------------------

\* the invocation of onError made by ws.onerror
GenericCall == [cb |-> "onError", arg |-> ConnectionErrorText]

\* the invocation a message of the protocol asks for
CallFor(id) ==
  CASE MsgKind(id) = "token" -> <<[cb |-> "onMessage", arg |-> MsgArg(id)]>>
    [] MsgKind(id) = "complete" -> <<[cb |-> "onComplete", arg |-> Undefined]>>
    [] MsgKind(id) = "error" -> <<[cb |-> "onError", arg |-> MsgArg(id)]>>
    [] OTHER -> <<>>

RECURSIVE ExpectedCalls(_)
ExpectedCalls(rcv) ==
  IF rcv = <<>> THEN <<>> ELSE CallFor(Head(rcv)) \o ExpectedCalls(Tail(rcv))

\* the invocations made for inbound messages
DispatchCalls == SelectSeq(calls, LAMBDA c : c # GenericCall)

CountCalls(cb) == Cardinality({i \in 1..Len(calls) : calls[i].cb = cb})

CountReceived(kind) ==
  Cardinality({i \in 1..Len(received) : MsgKind(received[i]) = kind})

WellFormed(rcv) ==
  \A i \in 1..Len(rcv) : MsgKind(rcv[i]) \in {"token", "complete", "error"}

\* the message a step delivers
Delivered(id) == received' = Append(received, id)

StateRank(rs) ==
  CASE rs = "CONNECTING" -> 0
    [] rs = "OPEN" -> 1
    [] rs = "CLOSING" -> 2
    [] rs = "CLOSED" -> 3

\* ------------------------------------------------------------------------
\* Claims about the duplex channel
\* ------------------------------------------------------------------------

\* C11: sendWebSocketMessage throws whenever the socket is not OPEN and then
\* sends nothing, now or later; when the socket is OPEN it sends exactly one
\* `chat` message carrying the given messages.
C11_SendOnlyWhenOpen ==
  LET opens == SelectSeq(sendLog, LAMBDA e : e.rs = "OPEN")
  IN  /\ \A i \in 1..Len(sendLog) : sendLog[i].ok = (sendLog[i].rs = "OPEN")
      /\ sent = [i \in 1..Len(opens) |->
                   [type |-> "chat", messages |-> opens[i].req]]

C11_Witness ==
  /\ Len(sendLog) = 2
  /\ sendLog[1].rs = "CONNECTING"
  /\ ~sendLog[1].ok
  /\ sendLog[2].rs = "OPEN"
  /\ Len(sent) = 1

\* C12: for a sequence of well-formed inbound messages the callbacks are
\* invoked in arrival order, one invocation per message, with the token or
\* error text of the message, and no other invocation is made for messages.
C12_DispatchInOrder ==
  WellFormed(received)
    => /\ DispatchCalls = ExpectedCalls(received)
       /\ Len(DispatchCalls) = Len(received)
       /\ (~failed) => (calls = DispatchCalls)

C12_Witness ==
  /\ received = <<"tokA", "tokB", "complete">>
  /\ calls = <<[cb |-> "onMessage", arg |-> Quoted(<<"a">>)],
               [cb |-> "onMessage", arg |-> Quoted(<<"b">>)],
               [cb |-> "onComplete", arg |-> Undefined]>>

\* C13 as stated: onComplete is invoked exactly once if a `complete` message
\* has been received, never otherwise, and never twice on one connection.
C13_CompleteOncePerConnection ==
  CountCalls("onComplete") = IF CountReceived("complete") > 0 THEN 1 ELSE 0

\* C13 as amended: onComplete is invoked exactly once for every `complete`
\* message received and never otherwise.
C13_CompleteOncePerMessage ==
  CountCalls("onComplete") = CountReceived("complete")

C13_Witness ==
  /\ received = <<"complete", "ping", "complete">>
  /\ CountCalls("onComplete") = 2

\* C14: a message that cannot be dispatched (unknown or missing type, or no
\* JSON) invokes no callback and leaves the connection state alone, and a
\* well-formed message delivered after it is dispatched as usual.
C14_UndispatchableIgnored ==
  [][\A id \in MsgIds :
       Delivered(id)
         => /\ MsgKind(id) \in {"unknown", "unparseable"}
                 => UNCHANGED <<calls, readyState, opened, failed, sockets>>
            /\ calls' = calls \o CallFor(id)
            /\ parseLogs' =
                 parseLogs + (IF MsgKind(id) = "unparseable" THEN 1 ELSE 0)]_vars

C14_Witness ==
  /\ received = <<"garbage", "noType", "tokA">>
  /\ calls = <<[cb |-> "onMessage", arg |-> Quoted(<<"a">>)]>>
  /\ readyState = "OPEN"

\* C15: an `error` message invokes onError with its text and leaves the
\* connection state unchanged; on a connection that is OPEN a later send
\* still succeeds and a later token is still dispatched.
C15_ErrorMessageKeepsState ==
  [][/\ Delivered("errX")
          => /\ calls' = Append(calls, [cb |-> "onError", arg |-> MsgArg("errX")])
             /\ UNCHANGED <<readyState, opened, failed, sockets>>
     /\ (CountReceived("error") > 0 /\ readyState = "OPEN")
          => /\ (sendLog' # sendLog) => (Len(sent') = Len(sent) + 1)
             /\ Delivered("tokA") => (calls' = calls \o CallFor("tokA"))]_vars

C15_Witness ==
  /\ received = <<"errX", "tokA">>
  /\ readyState = "OPEN"
  /\ calls = <<[cb |-> "onError", arg |-> Quoted(<<"x">>)],
               [cb |-> "onMessage", arg |-> Quoted(<<"a">>)]>>
  /\ Len(sent) = 1

\* C16: a transport failure, before or after the handshake, invokes onError
\* once with the generic text and leaves the connection in its failed state
\* (CLOSED after a failure), in which sendWebSocketMessage throws.
C16_TransportFailure ==
  /\ failed => readyState = "CLOSED"
  /\ Cardinality({i \in 1..Len(calls) : calls[i] = GenericCall})
       = (IF failed THEN 1 ELSE 0)
  /\ \A i \in 1..Len(sendLog) : sendLog[i].failed => ~sendLog[i].ok

C16_Witness ==
  /\ failed
  /\ opened
  /\ calls = <<GenericCall>>
  /\ \E i \in 1..Len(sendLog) : sendLog[i].failed /\ ~sendLog[i].ok

\* C17: a connection that closes without a close request from the caller
\* has invoked onError (besides the invocations made for `error` messages).
C17_UnexpectedCloseReported ==
  (readyState = "CLOSED" /\ closeCalls = 0)
    => CountCalls("onError") > CountReceived("error")

\* C18: no retry: the state only moves forward (CONNECTING, OPEN, CLOSING,
\* CLOSED), no replacement socket is ever made, and once the connection is
\* CLOSED it stays so and nothing more is sent.
C18_NoRetry ==
  [][/\ StateRank(readyState') >= StateRank(readyState)
     /\ sockets' = sockets
     /\ failed => failed'
     /\ (readyState = "CLOSED") => (sent' = sent)]_vars

C18_Witness ==
  /\ readyState = "CLOSED"
  /\ sockets = 1
  /\ \E i \in 1..Len(sendLog) : sendLog[i].rs = "CLOSED" /\ ~sendLog[i].ok

C20_FinishesAtDone ==
  (dones > 0) => (pc # "awaitRead")

\* C21: every complete data line whose payload is valid JSON yields exactly
\* one payload, whatever the JSON value (the number 0 as well as an object):
\* at the end of the body as many payloads have been yielded as there are
\* data lines that parse.
C21_EveryParsedLineYields ==
  (pc = "done")
    => Len(yielded) = Cardinality(LinesOfKind(script, "Tok")
                                    \cup LinesOfKind(script, "Zero"))

\* position of the last newline delivered so far, 0 when there is none
LastNewline ==
  LET nls == {i \in 1..pos : body[i] = NL}
  IN  IF nls = {} THEN 0 ELSE CHOOSE i \in nls : \A j \in nls : j <= i

\* C23: wherever the generator is suspended (waiting for a chunk or at a
\* yield) the buffer holds no newline: it is exactly the text received after
\* the last newline, never a complete line.
C23_BufferHoldsFragment ==
  (pc \in {"awaitRead", "yield"})
    => /\ \A i \in 1..Len(buffer) : buffer[i] # NL
       /\ buffer = SubSeq(body, LastNewline + 1, pos)

C23_Witness ==
  /\ pc = "yield"
  /\ buffer # <<>>
  /\ LastNewline > 0
  /\ pos < Len(body)

\* C24: an empty or whitespace-only line produces no event, in a chunk or
\* as the residual at the end of the body: a body of such lines yields
\* nothing and gives no diagnostic, and in any body the payloads and
\* diagnostics never outnumber the lines that are not blank.
C24_BlankLinesSilent ==
  /\ (\A i \in 1..Len(script) : LineKind(script[i]) = "Blank")
       => (yielded = <<>> /\ warns = <<>> /\ dones = 0)
  /\ Len(yielded) + Len(warns)
       <= Cardinality({i \in 1..Len(script) : LineKind(script[i]) # "Blank"})

C24_Witness ==
  /\ script = <<"Blank", "Space">>
  /\ ~terminated
  /\ pc = "done"
  /\ buffer = LineText("Space")
  /\ yielded = <<>>
  /\ warns = <<>>

\* C25: the payloads of the lines a chunk completes are all yielded before
\* the next chunk is asked for: while a read is pending no line is waiting
\* to be processed, and what has been yielded is exactly the payloads of the
\* lines delivered so far.
C25_ChunkDrainedBeforeRead ==
  (pc = "awaitRead")
    => /\ lines = <<>>
       /\ yielded = TokValues(DeliveredScript)

C25_Witness ==
  /\ pc = "awaitRead"
  /\ script = <<"TokA", "TokB", "Done">>
  /\ pos = Len(LineText("TokA")) + Len(LineText("TokB")) + 2
  /\ yielded = <<LineValue("TokA"), LineValue("TokB")>>

\* C30: a successful response without a readable body makes the generator
\* throw instead of ending as an empty sequence: nothing is yielded, no
\* read is issued and no release is attempted.
C30_MissingBodyIsAnError ==
  (status \in 200..299 /\ reader = "none")
    => /\ pc = "thrown"
       /\ error = [kind |-> "unreadable", status |-> 0]
       /\ yielded = <<>>
       /\ ~readIssued
       /\ releases = 0

C30_Witness ==
  /\ status = 200
  /\ reader = "none"
  /\ pc = "thrown"
  /\ error.kind = "unreadable"

\* ------------------------------------------------------------------------
\* Claims about the duplex channel, continued
\* ------------------------------------------------------------------------

\* C29: the duplex client has no timer of its own: a step in which the
\* connection delivers no message, no error event and no close event
\* invokes no callback, logs nothing and opens no socket, and the socket
\* leaves its state only by being opened or by the caller's close().
C29_NoTimeout ==
  [][(/\ received' = received
      /\ failed' = failed
      /\ ~(readyState' = "CLOSED" /\ readyState # "CLOSED"))
       => /\ calls' = calls
          /\ parseLogs' = parseLogs
          /\ sockets' = sockets
          /\ (readyState' # readyState)
               => \/ (readyState = "CONNECTING" /\ readyState' = "OPEN")
                  \/ closeCalls' > closeCalls]_vars

C29_Witness ==
  /\ readyState = "OPEN"
  /\ Len(sent) = MaxSends
  /\ received = <<>>
  /\ calls = <<>>
  /\ closeCalls = 0
  /\ ~failed

\* ------------------------------------------------------------------------
\* The copy of sendMessageStream in frontend/src/services/api.ts.
\* It runs on the same inputs and is described with the same variables;
\* it has no line buffer, so `buffer` stays empty, and it never warns.
\* ------------------------------------------------------------------------

\* the body of the for loop for one line: "skip" (no prefix, or the catch
\* block), "return" (`[DONE]`), or "yield" with the parsed value
apiLine(line) ==
  LET data == slice(line, 6)
      parsed == JsonParse(data)
  IN  IF startsWith(line, DataPrefix)
      THEN IF data = DoneToken THEN [kind |-> "return", value |-> JsonNull]
           ELSE IF parsed.ok THEN [kind |-> "yield", value |-> parsed.value]
           ELSE [kind |-> "skip", value |-> JsonNull]
      ELSE [kind |-> "skip", value |-> JsonNull]

RECURSIVE apiRunLines(_, _, _)
\* the for loop over the lines of a chunk, run up to the next yield
\* (suspended), to the `return` at `[DONE]` (returned) or to its end
apiRunLines(ls, y, d) ==
  IF ls = <<>>
  THEN [lines |-> <<>>, yielded |-> y, dones |-> d, suspended |-> FALSE,
        returned |-> FALSE]
  ELSE LET r == apiLine(Head(ls))
       IN  IF r.kind = "return"
           THEN [lines |-> Tail(ls), yielded |-> y, dones |-> d + 1,
                 suspended |-> FALSE, returned |-> TRUE]
           ELSE IF r.kind = "yield"
           THEN [lines |-> Tail(ls), yielded |-> Append(y, r.value),
                 dones |-> d, suspended |-> TRUE, returned |-> FALSE]
           ELSE apiRunLines(Tail(ls), y, d)

\* the state after the for loop ran up to r; no path releases the reader
ApiAfterLoop(r) ==
  /\ lines' = r.lines
  /\ yielded' = r.yielded
  /\ dones' = r.dones
  /\ pc' = IF r.returned THEN "done"
           ELSE IF r.suspended THEN "yield"
           ELSE "awaitRead"
  /\ UNCHANGED <<reader, releases, buffer, atEnd, warns>>

\* the first next(): status check, then `if (!reader) return`
ApiFetch ==
  /\ pc = "start"
  /\ outbound' = Append(outbound, RequestBody(options))
  /\ \E st \in Statuses, hasBody \in BOOLEAN :
       /\ status' = st
       /\ IF ~ResponseOk(st)
          THEN /\ hasBody
               /\ pc' = "thrown"
               /\ error' = [kind |-> "http", status |-> st]
               /\ UNCHANGED <<reader, readIssued>>
          ELSE IF ~hasBody
               THEN /\ pc' = "done"
                    /\ UNCHANGED <<reader, readIssued, error>>
               ELSE /\ pc' = "awaitRead"
                    /\ reader' = "locked"
                    /\ readIssued' = TRUE
                    /\ UNCHANGED error
  /\ UNCHANGED <<script, terminated, pos, readFailed, releases, buffer, lines,
                 atEnd, yielded, warns, dones>>
  /\ UNCHANGED <<wsVars, options, parVars>>

\* reader.read() resolves with the next chunk: the chunk alone is split
ApiReadChunk ==
  /\ pc = "awaitRead"
  /\ pos < Len(body)
  /\ \E k \in 1..(Len(body) - pos) :
       LET chunk == SubSeq(body, pos + 1, pos + k)
       IN  /\ pos' = pos + k
           /\ ApiAfterLoop(apiRunLines(split(chunk, NL), yielded, dones))
  /\ UNCHANGED <<script, terminated, readFailed, status, readIssued, error>>
  /\ UNCHANGED <<wsVars, reqVars, parVars>>

\* reader.read() resolves with done: `break`, and the function ends
ApiReadDone ==
  /\ pc = "awaitRead"
  /\ pos = Len(body)
  /\ pc' = "done"
  /\ UNCHANGED <<script, terminated, pos, readFailed, status, reader, releases,
                 readIssued, buffer, lines, atEnd, yielded, warns, dones,
                 error>>
  /\ UNCHANGED <<wsVars, reqVars, parVars>>

\* reader.read() rejects: the error leaves the generator
ApiReadError ==
  /\ pc = "awaitRead"
  /\ readFailed' = TRUE
  /\ pc' = "thrown"
  /\ error' = [kind |-> "transport", status |-> 0]
  /\ UNCHANGED <<script, terminated, pos, status, reader, releases, readIssued,
                 buffer, lines, atEnd, yielded, warns, dones>>
  /\ UNCHANGED <<wsVars, reqVars, parVars>>

\* the consumer asks for the next payload
ApiResume ==
  /\ pc = "yield"
  /\ ApiAfterLoop(apiRunLines(lines, yielded, dones))
  /\ UNCHANGED <<script, terminated, pos, readFailed, status, readIssued,
                 error>>
  /\ UNCHANGED <<wsVars, reqVars, parVars>>

\* the consumer abandons the iteration at a yield
ApiReturn ==
  /\ pc = "yield"
  /\ pc' = "returned"
  /\ UNCHANGED <<script, terminated, pos, readFailed, status, reader, releases,
                 readIssued, buffer, lines, atEnd, yielded, warns, dones,
                 error>>
  /\ UNCHANGED <<wsVars, reqVars, parVars>>

NextApi ==
  \/ ApiFetch
  \/ FetchReject
  \/ ApiReadChunk
  \/ ApiReadDone
  \/ ApiReadError
  \/ ApiResume
  \/ ApiReturn
  \/ ReturnAtStart

SpecApi == Init /\ [][NextApi]_vars

\* ------------------------------------------------------------------------
\* Claims about the two copies
\* ------------------------------------------------------------------------

RECURSIVE yieldAll(_)
\* what the loops of part_004 yield for a sequence of lines
yieldAll(ls) ==
  IF ls = <<>> THEN <<>>
  ELSE LET r == processLine(Head(ls))
       IN  (IF Truthy(r.ret) THEN <<r.ret>> ELSE <<>>) \o yieldAll(Tail(ls))

\* what part_004 yields for the whole body: its complete lines, then the
\* residual
Output004 ==
  LET ls == split(body, NL)
  IN  yieldAll(CompleteLines(ls) \o ResidualLines(RetainedBuffer(ls)))

\* under Spec, part_004 ends every body with Output004, however it is cut
Output004IsYielded == (pc = "done") => (yielded = Output004)

\* C26: the two copies are observationally equivalent: the api.ts copy ends
\* a body having yielded what part_004 yields for it, and a response
\* without a body ends it the way it ends part_004, with an error.
C26_CopiesAgree ==
  /\ (pc = "done" /\ reader # "none") => (yielded = Output004)
  /\ (status \in 200..299 /\ reader = "none") => (pc = "thrown")

\* C27: the api.ts copy releases the reader it acquired exactly once on
\* every exit path: end of body, `[DONE]`, abandonment, rejected read.
C27_ApiReleasedExactlyOnce ==
  (pc \in Terminal /\ reader # "none")
    => (reader = "released" /\ releases = 1)

\* ------------------------------------------------------------------------
\* The outbound call: one invocation on a one-line body, with any options
\* ------------------------------------------------------------------------

InitReq ==
  /\ options \in [messages : Requests, maxTokens : MaxTokensArgs,
                  temperature : TemperatureArgs, topP : TopPArgs]
  /\ outbound = <<>>
  /\ script = <<"TokA">>
  /\ terminated = TRUE
  /\ pos = 0
  /\ readFailed = FALSE
  /\ status = 0
  /\ pc = "start"
  /\ reader = "none"
  /\ releases = 0
  /\ readIssued = FALSE
  /\ buffer = <<>>
  /\ lines = <<>>
  /\ atEnd = FALSE
  /\ yielded = <<>>
  /\ warns = <<>>
  /\ dones = 0
  /\ error = NoError
  /\ WsInit
  /\ ParIdle

SpecReq == InitReq /\ [][Next]_vars

\* the value a parameter is to be sent with: the caller's when supplied,
\* the default when left out
Supplied(opt, dflt) == IF opt.given THEN opt.v ELSE dflt

\* C28: an invocation issues exactly one outbound call, whose body carries
\* the caller's maxTokens, temperature and topP whenever they are supplied
\* (0 included) and the defaults 1000, 0.7, 0.9 only for what was left out.
C28_ParametersPassed ==
  /\ Len(outbound) <= 1
  /\ (status # 0) => (Len(outbound) = 1)
  /\ \A i \in 1..Len(outbound) :
       /\ outbound[i].messages = options.messages
       /\ outbound[i].max_tokens = Supplied(options.maxTokens, 1000)
       /\ outbound[i].temperature = Supplied(options.temperature, 7)
       /\ outbound[i].top_p = Supplied(options.topP, 9)

\* ------------------------------------------------------------------------
\* Several sendMessageStream invocations side by side. Each has acquired its
\* reader and declared its `let buffer = ''`; their reads and yields
\* interleave in any order.
\* ------------------------------------------------------------------------

\* number of invocations running side by side
NumStreams == 2

\* the bodies they receive
ParScripts == {<<"TokA">>, <<"TokB">>}

\* the body of an invocation
ParBody(st) == Render(st.script, TRUE)

\* one `buffer` shared by all invocations
BufferSlotShared(i) == 1

\* `let buffer = ''` is local to the invocation: each has its own
BufferSlot(i) == i

InitPar ==
  /\ streams \in [1..NumStreams ->
                    {[script |-> sc, pos |-> 0, pc |-> "awaitRead",
                      lines |-> <<>>, atEnd |-> FALSE, yielded |-> <<>>] :
                       sc \in ParScripts}]
  /\ buffers = [i \in 1..NumStreams |-> <<>>]
  /\ StreamIdle
  /\ WsInit
  /\ ReqIdle

\* invocation i after a for loop ran up to r
ParAfterLoop(i, st, r, end) ==
  streams' = [streams EXCEPT ![i] =
                [st EXCEPT !.lines = r.lines,
                           !.yielded = r.yielded,
                           !.atEnd = end,
                           !.pc = IF r.suspended THEN "yield"
                                  ELSE IF end THEN "done"
                                  ELSE "awaitRead"]]

\* reader.read() of invocation i resolves with its next chunk
ParReadChunk(i) ==
  LET st == streams[i]
  IN  /\ st.pc = "awaitRead"
      /\ st.pos < Len(ParBody(st))
      /\ \E k \in 1..(Len(ParBody(st)) - st.pos) :
           LET value == SubSeq(ParBody(st), st.pos + 1, st.pos + k)
               ls == split(buffers[BufferSlot(i)] \o value, NL)
           IN  /\ buffers' = [buffers EXCEPT
                                ![BufferSlot(i)] = RetainedBuffer(ls)]
               /\ ParAfterLoop(i, [st EXCEPT !.pos = st.pos + k],
                               runLines(CompleteLines(ls), st.yielded,
                                        <<>>, 0),
                               FALSE)
      /\ UNCHANGED <<streamVars, wsVars, reqVars>>

\* reader.read() of invocation i resolves with done
ParReadDone(i) ==
  LET st == streams[i]
  IN  /\ st.pc = "awaitRead"
      /\ st.pos = Len(ParBody(st))
      /\ ParAfterLoop(i, st,
                      runLines(ResidualLines(buffers[BufferSlot(i)]),
                               st.yielded, <<>>, 0),
                      TRUE)
      /\ UNCHANGED <<buffers, streamVars, wsVars, reqVars>>

\* the consumer of invocation i asks for its next payload
ParResume(i) ==
  LET st == streams[i]
  IN  /\ st.pc = "yield"
      /\ ParAfterLoop(i, st, runLines(st.lines, st.yielded, <<>>, 0),
                      st.atEnd)
      /\ UNCHANGED <<buffers, streamVars, wsVars, reqVars>>

NextPar ==
  \E i \in 1..NumStreams :
    \/ ParReadChunk(i)
    \/ ParReadDone(i)
    \/ ParResume(i)

SpecPar == InitPar /\ [][NextPar]_vars

\* the lines of invocation i completed by what it has been delivered
ParDelivered(i) ==
  LET st == streams[i]
      n == Cardinality({j \in 1..st.pos : ParBody(st)[j] = NL})
  IN  SubSeq(st.script, 1, n)

\* the text invocation i has been delivered after its last newline
ParFragment(i) ==
  LET st == streams[i]
      nls == {j \in 1..st.pos : ParBody(st)[j] = NL}
      last == IF nls = {} THEN 0 ELSE CHOOSE j \in nls : \A k \in nls : k <= j
  IN  SubSeq(ParBody(st), last + 1, st.pos)

\* C22: invocations whose reads and yields interleave each yield what they
\* yield alone: while one waits for a chunk it has yielded the payloads of
\* its own delivered lines and its buffer holds its own unfinished line
\* only, and it ends having yielded the payloads of its own body.
C22_StreamsIndependent ==
  \A i \in DOMAIN streams :
    /\ (streams[i].pc = "awaitRead")
         => /\ streams[i].yielded = TokValues(ParDelivered(i))
            /\ buffers[i] = ParFragment(i)
    /\ (streams[i].pc = "done")
         => streams[i].yielded = TokValues(streams[i].script)

C22_Witness ==
  /\ streams[1].script = <<"TokA">>
  /\ streams[2].script = <<"TokB">>
  /\ streams[1].pc = "awaitRead"
  /\ buffers[1] = DataPrefix \o <<"{">>
  /\ streams[2].pc = "awaitRead"
  /\ buffers[2] = DataPrefix \o <<"{", "\"", "t", "\"", ":", " ", "2">>
  /\ streams[1].yielded = <<>>

=============================================================================
